---- MODULE Spec2Model ----
(***************************************************************************)
(* A model of `t`, a personal task tracker: Task, TaskList (an IndexMap    *)
(* from u8 ids to tasks), Db (an IndexMap from names to task lists plus    *)
(* the name of the current list) and the command line front end that       *)
(* loads the database, applies one subcommand and saves it.                *)
(*                                                                         *)
(* Four specifications share the operators below:                         *)
(*   SpecTL    one TaskList driven by its public operations;               *)
(*   SpecFull  the same operations on a list whose id space is nearly      *)
(*             exhausted;                                                  *)
(*   Spec      a Db driven by its operations and by task operations on     *)
(*             the current list;                                           *)
(*   SpecCli   successive runs of main() against the database file.        *)
(***************************************************************************)
EXTENDS Integers, Sequences, FiniteSets, TLC

VARIABLES
    tl,       \* the TaskList under test (SpecTL, SpecFull)
    pre,      \* tl as it was before the last operation
    peak,     \* the largest number of tasks tl has held at one time
    removed,  \* whether a task has ever been removed from tl
    last,     \* the last operation: its name, arguments and what it returned
    build,    \* "debug" (overflow checks on) or "release" (wrapping arithmetic)
    db,       \* the Db under test (Spec)
    pre_db,   \* db as it was before the last operation
    disk,     \* the database file: NoFile or the JSON last written (SpecCli)
    start,    \* disk as it was when main() began
    disk0,    \* disk as it was when main() had loaded the database
    pc,       \* where main() is
    mem,      \* the Db main() holds in memory
    cmd,      \* the parsed subcommand of this run
    exit,     \* the exit status of the last finished run
    out       \* the text last displayed: what the last finished run printed

tlVars == <<tl, pre, peak, removed>>
dbVars == <<db, pre_db>>
fileVars == <<disk, start, disk0>>
runVars == <<pc, mem, cmd, exit>>
cliVars == <<fileVars, runVars, out>>
vars == <<tl, pre, peak, removed, last, build, db, pre_db, disk, start, disk0, pc, mem, cmd, exit, out>>

(***************************************************************************)
(* Bounds of the model.                                                    *)
(***************************************************************************)
\* most tasks a list holds at once in SpecTL
MaxTasks == 3
\* most tasks all lists of the Db hold together in Spec and SpecCli
MaxDbTasks == 2
\* ids still free in the initial list of SpecFull
FreeAtStart == 2

\* u8::MAX, the largest task id
U8Max == 255

\* the titles the operations are called with: one of one line and one of
\* two lines
Titles == {"a", "b\nc"}
\* the names add_task_list is called with
Names == {"Tasks", "Work"}
\* the names set_current is called with: those, and one that is never a list
CurrentNames == Names \cup {"Home"}
Builds == {"debug", "release"}

\* no u8
NoId == U8Max + 1
NoTitle == ""
NoName == ""

(***************************************************************************)
(* Status and Task.                                                        *)
(***************************************************************************)
Incomplete == "Incomplete"
Complete == "Complete"

TaskNew(title) == [title |-> title, status |-> Incomplete, reminders |-> <<>>]

\* complete as a toggle
TaskCompleteToggle(task) ==
    [task EXCEPT !.status = IF @ = Complete THEN Incomplete ELSE Complete]

TaskComplete(task) == [task EXCEPT !.status = Complete]

\* rename by building the task anew
TaskRenameAsNew(task, new_title) == TaskNew(new_title)

TaskRename(task, new_title) == [task EXCEPT !.title = new_title]

TaskIsComplete(task) == task.status = Complete

(***************************************************************************)
(* IndexMap: a sequence of [key, value] entries in iteration order, keys   *)
(* unique.                                                                 *)
(***************************************************************************)
MapNew == <<>>

MapKeys(m) == {m[i].key : i \in 1..Len(m)}

MapContainsKey(m, k) == k \in MapKeys(m)

MapIndexOf(m, k) == CHOOSE i \in 1..Len(m) : m[i].key = k

MapGet(m, k) == m[MapIndexOf(m, k)].value

\* a write done as a removal and a new insertion: the pair goes last
MapSetReinserting(m, k, v) ==
    Append(SelectSeq(m, LAMBDA e : e.key # k), [key |-> k, value |-> v])

\* get_mut followed by a write through the reference
MapSet(m, k, v) == [m EXCEPT ![MapIndexOf(m, k)].value = v]

\* VacantEntry::insert: the new pair goes last
MapPush(m, k, v) == Append(m, [key |-> k, value |-> v])

\* an insert that takes an existing key out and puts the pair last
MapInsertMoving(m, k, v) ==
    MapPush(SelectSeq(m, LAMBDA e : e.key # k), k, v)

\* IndexMap::insert: an existing key keeps its place and gets the new value
MapInsert(m, k, v) ==
    IF MapContainsKey(m, k) THEN MapSet(m, k, v) ELSE MapPush(m, k, v)

\* a removal that drops the last pair without moving it to the place of
\* the removed one
MapRemoveLast(m, k) == SubSeq(m, 1, Len(m) - 1)

\* IndexMap::remove is swap_remove: the last pair takes the place of the
\* removed one
MapSwapRemove(m, k) ==
    LET i == MapIndexOf(m, k)
        n == Len(m)
    IN  [j \in 1..(n - 1) |-> IF j = i THEN m[n] ELSE m[j]]

MapKeySeq(m) == [i \in 1..Len(m) |-> m[i].key]

(***************************************************************************)
(* Results.                                                                *)
(***************************************************************************)
Ok == [kind |-> "Ok", id |-> NoId, name |-> NoName]
NonExistentTaskId(id) == [kind |-> "NonExistentTaskId", id |-> id, name |-> NoName]
NonExistentTaskList(name) == [kind |-> "NonExistentTaskList", id |-> NoId, name |-> name]
\* the call does not return: it unwinds
Panicked == [kind |-> "panic", id |-> NoId, name |-> NoName]
\* the call does not return: it loops for ever
Diverged == [kind |-> "hang", id |-> NoId, name |-> NoName]

Returned(res) == res.kind \notin {"panic", "hang"}

(***************************************************************************)
(* TaskList.                                                               *)
(***************************************************************************)
TaskListDefault == MapNew

\* the next id taken to be the number of tasks
ProbeFromLen(tasks, b) == [kind |-> "vacant", id |-> Len(tasks)]

TaskListIsEmpty(tasks) == Len(tasks) = 0

\* The loop of add_task: id_candidate starts at 0 and goes up by one while
\* its entry is occupied, so the loop leaves at the first vacant id, having
\* found every smaller one occupied. id_candidate is a u8: with all of
\* 0..U8Max occupied, id_candidate += 1 at U8Max panics where overflow is
\* checked and wraps to 0 where it is not, and the loop is back where it
\* started with the map as it was: it never ends.
\* the id after the largest one in use
ProbeAfterMax(tasks, b) ==
    LET keys == MapKeys(tasks)
    IN  IF keys = {} THEN [kind |-> "vacant", id |-> 0]
        ELSE [kind |-> "vacant",
              id |-> 1 + CHOOSE k \in keys : \A j \in keys : j <= k]

Probe(tasks, b) ==
    LET keys == MapKeys(tasks)
        Leaves(c) == c \notin keys /\ \A d \in 0..(c - 1) : d \in keys
    IN  IF \E c \in 0..U8Max : Leaves(c)
        THEN [kind |-> "vacant", id |-> CHOOSE c \in 0..U8Max : Leaves(c)]
        ELSE IF b = "debug"
             THEN [kind |-> "panic", id |-> NoId]
             ELSE [kind |-> "hang", id |-> NoId]

\* add_task that takes the number of tasks as the id and inserts there
AddTaskAtLen(tasks, task, b) ==
    [res |-> Ok, tasks |-> MapInsert(tasks, Len(tasks), task)]

AddTask(tasks, task, b) ==
    LET p == Probe(tasks, b)
    IN  CASE p.kind = "vacant" -> [res |-> Ok, tasks |-> MapPush(tasks, p.id, task)]
          [] p.kind = "panic"  -> [res |-> Panicked, tasks |-> tasks]
          [] p.kind = "hang"   -> [res |-> Diverged, tasks |-> tasks]

\* remove_task that ignores an absent id
RemoveTaskSilent(tasks, id) ==
    IF MapContainsKey(tasks, id)
    THEN [res |-> Ok, tasks |-> MapSwapRemove(tasks, id)]
    ELSE [res |-> Ok, tasks |-> tasks]

RemoveTask(tasks, id) ==
    IF MapContainsKey(tasks, id)
    THEN [res |-> Ok, tasks |-> MapSwapRemove(tasks, id)]
    ELSE [res |-> NonExistentTaskId(id), tasks |-> tasks]

RenameTask(tasks, id, new_title) ==
    IF MapContainsKey(tasks, id)
    THEN [res |-> Ok, tasks |-> MapSet(tasks, id, TaskRename(MapGet(tasks, id), new_title))]
    ELSE [res |-> NonExistentTaskId(id), tasks |-> tasks]

CompleteTask(tasks, id) ==
    IF MapContainsKey(tasks, id)
    THEN [res |-> Ok, tasks |-> MapSet(tasks, id, TaskComplete(MapGet(tasks, id)))]
    ELSE [res |-> NonExistentTaskId(id), tasks |-> tasks]

\* retain with the test the wrong way round
RemoveIncompleteTasks(tasks) ==
    [res |-> Ok, tasks |-> SelectSeq(tasks, LAMBDA e : TaskIsComplete(e.value))]

\* IndexMap::retain keeps the order of the pairs it keeps
RemoveCompletedTasks(tasks) ==
    [res |-> Ok, tasks |-> SelectSeq(tasks, LAMBDA e : ~TaskIsComplete(e.value))]

(***************************************************************************)
(* Db.                                                                     *)
(***************************************************************************)
\* add_task_list that leaves a list it finds under the name as it is
DbAddTaskListIfAbsent(d, name, task_list) ==
    [d EXCEPT !.task_lists = IF MapContainsKey(@, name) THEN @
                             ELSE MapPush(@, name, task_list)]

DbAddTaskList(d, name, task_list) ==
    [d EXCEPT !.task_lists = MapInsert(@, name, task_list)]

\* set_current without the contains_key test
DbSetCurrentUnchecked(d, new_current_list) ==
    [res |-> Ok, db |-> [d EXCEPT !.current_list = new_current_list]]

\* set_current that makes the list it does not find
DbSetCurrentCreating(d, new_current_list) ==
    [res |-> Ok,
     db |-> [d EXCEPT !.task_lists = IF MapContainsKey(@, new_current_list) THEN @
                                     ELSE MapPush(@, new_current_list, MapNew),
                      !.current_list = new_current_list]]

DbSetCurrent(d, new_current_list) ==
    IF MapContainsKey(d.task_lists, new_current_list)
    THEN [res |-> Ok, db |-> [d EXCEPT !.current_list = new_current_list]]
    ELSE [res |-> NonExistentTaskList(new_current_list), db |-> d]

None == [some |-> FALSE]
Some(v) == [some |-> TRUE, value |-> v]

\* the first list, whichever list is current
DbGetFirstTaskList(d) ==
    IF d.task_lists # <<>> THEN Some(d.task_lists[1].value) ELSE None

\* Option<&mut TaskList>: the list itself is reached through its name
DbGetCurrentTaskListMut(d) ==
    IF MapContainsKey(d.task_lists, d.current_list)
    THEN Some(MapGet(d.task_lists, d.current_list))
    ELSE None

\* a write through the reference get_current_task_list_mut returned
DbWriteCurrent(d, tasks) ==
    [d EXCEPT !.task_lists = MapSet(@, d.current_list, tasks)]

(***************************************************************************)
(* Display. A text is the sequence of its lines: the lines joined by "\n". *)
(***************************************************************************)
\* the bullet U+2022 and the en dash U+2013
StatusDisplay(status) == IF status = Incomplete THEN "U+2022" ELSE "U+2013"

\* the lines of a string, as str::lines gives them: the two-line title of
\* the model is the only string with a line break in it
StrLines(str) == IF str = "b\nc" THEN <<"b", "c">> ELSE <<str>>

\* "{} {}" of the status and the title: the text starts with the glyph and
\* goes on as the title does
TaskDisplay(task) ==
    LET lines == StrLines(task.title)
    IN  <<StatusDisplay(task.status) \o " " \o Head(lines)>> \o Tail(lines)

\* {:>3}
RECURSIVE PadLeft3(_)
PadLeft3(str) == IF Len(str) < 3 THEN PadLeft3(" " \o str) ELSE str

\* "[{:>3}] {}" of the i-th entry
EntryDisplay(tasks, i) ==
    LET text == TaskDisplay(tasks[i].value)
    IN  <<"[" \o PadLeft3(ToString(tasks[i].key)) \o "] " \o Head(text)>>
            \o Tail(text)

\* the entries from the i-th on, "\n" written between two entries
RECURSIVE TaskListDisplayFrom(_, _)
TaskListDisplayFrom(tasks, i) ==
    IF i > Len(tasks) THEN <<>>
    ELSE EntryDisplay(tasks, i) \o TaskListDisplayFrom(tasks, i + 1)

TaskListDisplay(tasks) == TaskListDisplayFrom(tasks, 1)

\* print_task_list with the test of the current list inverted
PrintTaskListInverted(current_list, name, task_list) ==
    <<IF name # current_list THEN name \o " (current)" ELSE name>>
    \o (IF TaskListIsEmpty(task_list)
        THEN <<"  No tasks have been added to this task list yet">>
        ELSE LET lines == TaskListDisplay(task_list)
             IN  [i \in 1..Len(lines) |-> "  " \o lines[i]])

\* print_task_list
PrintTaskList(current_list, name, task_list) ==
    <<IF name = current_list THEN name \o " (current)" ELSE name>>
    \o (IF TaskListIsEmpty(task_list)
        THEN <<"  No tasks have been added to this task list yet">>
        ELSE LET lines == TaskListDisplay(task_list)
             IN  [i \in 1..Len(lines) |-> "  " \o lines[i]])

\* the lists from the i-th on; writeln!(f, "\n") after every list but the
\* last ends its last line and leaves one empty line
RECURSIVE DbDisplayFrom(_, _)
DbDisplayFrom(d, i) ==
    LET n == Len(d.task_lists)
        e == d.task_lists[i]
    IN  IF i > n THEN <<>>
        ELSE IF i = n THEN PrintTaskList(d.current_list, e.key, e.value)
        ELSE PrintTaskList(d.current_list, e.key, e.value) \o <<"">>
                \o DbDisplayFrom(d, i + 1)

DbDisplay(d) == DbDisplayFrom(d, 1)

(***************************************************************************)
(* The stored form: serde_json of the derived Serialize and Deserialize.   *)
(* A JSON object is the sequence of its members [k, v] in the order        *)
(* written; an IndexMap is written as an object in iteration order, a u8   *)
(* key as the string of its decimal digits.                                *)
(***************************************************************************)
Member(k, v) == [k |-> k, v |-> v]

Field(obj, k) == obj[CHOOSE i \in 1..Len(obj) : obj[i].k = k].v

ParseU8(str) == CHOOSE n \in 0..U8Max : ToString(n) = str

TaskToJson(task) ==
    <<Member("title", task.title), Member("status", task.status),
      Member("reminders", task.reminders)>>

TaskFromJson(obj) ==
    [title |-> Field(obj, "title"), status |-> Field(obj, "status"),
     reminders |-> Field(obj, "reminders")]

TaskListToJson(tasks) ==
    <<Member("tasks",
        [i \in 1..Len(tasks) |->
            Member(ToString(tasks[i].key), TaskToJson(tasks[i].value))])>>

\* the members of a JSON object inserted one after the other
RECURSIVE TasksFromJson(_, _)
TasksFromJson(obj, m) ==
    IF obj = <<>> THEN m
    ELSE TasksFromJson(Tail(obj),
            MapInsert(m, ParseU8(Head(obj).k), TaskFromJson(Head(obj).v)))

\* a reader that keeps the tasks in a map ordered by id
TaskListFromJsonSorted(obj) ==
    LET m == TasksFromJson(Field(obj, "tasks"), MapNew)
    IN  [i \in 1..Len(m) |->
            m[CHOOSE j \in 1..Len(m) :
                Cardinality({k \in 1..Len(m) : m[k].key <= m[j].key}) = i]]

TaskListFromJson(obj) == TasksFromJson(Field(obj, "tasks"), MapNew)

DbToJson(d) ==
    <<Member("task_lists",
        [i \in 1..Len(d.task_lists) |->
            Member(d.task_lists[i].key, TaskListToJson(d.task_lists[i].value))]),
      Member("current_list", d.current_list)>>

RECURSIVE TaskListsFromJson(_, _)
TaskListsFromJson(obj, m) ==
    IF obj = <<>> THEN m
    ELSE TaskListsFromJson(Tail(obj),
            MapInsert(m, Head(obj).k, TaskListFromJson(Head(obj).v)))

DbFromJson(obj) ==
    [task_lists |-> TaskListsFromJson(Field(obj, "task_lists"), MapNew),
     current_list |-> Field(obj, "current_list")]

\* the database file: absent, or holding the JSON written
NoFile == [exists |-> FALSE]
File(json) == [exists |-> TRUE, json |-> json]

\* read_db and save_db
ReadDb(file) == DbFromJson(file.json)
SaveDb(d) == File(DbToJson(d))

(***************************************************************************)
(* SpecTL and SpecFull: one TaskList and its operations.                   *)
(***************************************************************************)
Op(op, id, title, name, res) ==
    [op |-> op, id |-> id, title |-> title, name |-> name, list |-> <<>>,
     res |-> res]

\* add_task_list, called with a name and a list
OpAddTaskList(name, task_list) ==
    [Op("add_task_list", NoId, NoTitle, name, Ok) EXCEPT !.list = task_list]

NoOp == Op("none", NoId, NoTitle, NoName, Ok)

\* what #[derive(Default)] would give: no list and an empty name
DbDerivedDefault == [task_lists |-> MapNew, current_list |-> ""]

\* impl Default for Db
DbDefault ==
    [task_lists |-> MapInsert(MapNew, "Tasks", TaskListDefault),
     current_list |-> "Tasks"]


\* the parts of the state a specification does not use
DbIdle == db = DbDefault /\ pre_db = DbDefault
CliIdle == /\ disk = NoFile /\ start = NoFile /\ disk0 = NoFile /\ pc = "idle"
           /\ mem = DbDefault /\ cmd = NoOp /\ exit = "none" /\ out = <<>>
TLIdle == /\ tl = TaskListDefault /\ pre = TaskListDefault
          /\ peak = 0 /\ removed = FALSE

\* the ids the operations of SpecTL are called with: every id a list of
\* MaxTasks tasks can hold, and one it cannot
TLIds == 0..MaxTasks

\* a list holding ids 0 .. U8Max - FreeAtStart, as U8Max - FreeAtStart + 1
\* calls of add_task on the empty list leave it
NearlyFull ==
    [i \in 1..(U8Max + 1 - FreeAtStart) |-> [key |-> i - 1, value |-> TaskNew("a")]]

\* the ids the operations of SpecFull are called with
FullIds == {0, U8Max}

TLInit ==
    /\ tl = TaskListDefault
    /\ pre = TaskListDefault
    /\ peak = 0
    /\ removed = FALSE
    /\ last = NoOp
    /\ build \in Builds
    /\ DbIdle /\ CliIdle

FullInit ==
    /\ tl = NearlyFull
    /\ pre = NearlyFull
    /\ peak = Len(NearlyFull)
    /\ removed = FALSE
    /\ last = NoOp
    /\ build \in Builds
    /\ DbIdle /\ CliIdle

TLApply(op, id, title, r) ==
    /\ Returned(last.res)
    /\ pre' = tl
    /\ tl' = r.tasks
    /\ peak' = IF Len(r.tasks) > peak THEN Len(r.tasks) ELSE peak
    /\ removed' = (removed \/ Len(r.tasks) < Len(tl))
    /\ last' = Op(op, id, title, NoName, r.res)
    /\ out' = <<>>
    /\ UNCHANGED <<build, dbVars, fileVars, runVars>>

TLAddTask(titles, cap) ==
    \E title \in titles :
        /\ Len(tl) < cap
        /\ TLApply("add_task", NoId, title, AddTask(tl, TaskNew(title), build))

TLRemoveTask(ids) ==
    \E id \in ids : TLApply("remove_task", id, NoTitle, RemoveTask(tl, id))

TLRenameTask(ids, titles) ==
    \E id \in ids, title \in titles :
        TLApply("rename_task", id, title, RenameTask(tl, id, title))

TLCompleteTask(ids) ==
    \E id \in ids : TLApply("complete_task", id, NoTitle, CompleteTask(tl, id))

TLRemoveCompletedTasks ==
    TLApply("remove_completed_tasks", NoId, NoTitle, RemoveCompletedTasks(tl))

\* format!("{}", task_list)
TLDisplay ==
    /\ Returned(last.res)
    /\ last.op # "display"
    /\ out' = TaskListDisplay(tl)
    /\ last' = Op("display", NoId, NoTitle, NoName, Ok)
    /\ pre' = tl
    /\ UNCHANGED <<tl, peak, removed, build, dbVars, fileVars, runVars>>

TLNext ==
    \/ TLAddTask(Titles, MaxTasks)
    \/ TLRemoveTask(TLIds)
    \/ TLRenameTask(TLIds, Titles)
    \/ TLCompleteTask(TLIds)
    \/ TLRemoveCompletedTasks
    \/ TLDisplay

FullNext ==
    \/ TLAddTask({"a"}, U8Max + 2)
    \/ TLRemoveTask(FullIds)
    \/ TLRenameTask(FullIds, {"b"})
    \/ TLCompleteTask(FullIds)
    \/ TLRemoveCompletedTasks

SpecTL == TLInit /\ [][TLNext]_vars

SpecFull == FullInit /\ [][FullNext]_vars

(***************************************************************************)
(* Properties of the TaskList operations.                                  *)
(***************************************************************************)
FreeIds(tasks) == (0..U8Max) \ MapKeys(tasks)

\* C1: add_task on a list of fewer than 256 tasks stores the task under the
\* smallest id of 0..255 that was not a key before the call, so a freed id
\* is reused while higher ids are occupied.
C1_AddTaskTakesSmallestFreeId ==
    (last.op = "add_task" /\ Len(pre) < U8Max + 1) =>
        /\ last.res = Ok
        /\ \E k \in FreeIds(pre) :
            /\ \A j \in FreeIds(pre) : k <= j
            /\ MapKeys(tl) = MapKeys(pre) \cup {k}
            /\ MapGet(tl, k) = TaskNew(last.title)

\* add_task has reused a freed id below an occupied one
C1_Witness ==
    /\ last.op = "add_task"
    /\ last.res = Ok
    /\ \E k \in MapKeys(pre) : k > tl[Len(tl)].key

\* C3: remove_task, rename_task and complete_task with an id that is not a
\* key return NonExistentTaskId with that id and leave the list as it was.
C3_AbsentIdIsAnErrorAndNoChange ==
    (/\ last.op \in {"remove_task", "rename_task", "complete_task"}
     /\ last.id \notin MapKeys(pre)) =>
        /\ last.res = NonExistentTaskId(last.id)
        /\ tl = pre

\* remove_task has been called with an absent id on a list that holds tasks
C3_Witness ==
    /\ last.op = "remove_task"
    /\ last.id \notin MapKeys(pre)
    /\ Len(pre) > 1
    /\ last.res.kind = "NonExistentTaskId"

\* C5: the iteration order is the order in which the surviving tasks were
\* added: add_task puts the new task after the others and a successful
\* remove_task leaves the others in the order they had.
C5_IterationOrderIsInsertionOrder ==
    /\ (last.op = "add_task" /\ last.res = Ok) =>
            SubSeq(tl, 1, Len(pre)) = pre
    /\ (last.op = "remove_task" /\ last.res = Ok) =>
            tl = SelectSeq(pre, LAMBDA e : e.key # last.id)

\* C6: every operation returns, with a value or an Err, also on a list in
\* which all 256 ids are taken.
C6_EveryOperationReturns == Returned(last.res)

\* the place of key k in the iteration order of m
Place(m, k) == MapIndexOf(m, k)

\* C8: remove_completed_tasks returns and leaves exactly the tasks that were
\* Incomplete, under their ids, in their relative order; a second call
\* changes nothing.
C8_RemoveCompletedKeepsIncomplete ==
    last.op = "remove_completed_tasks" =>
        /\ last.res = Ok
        /\ MapKeys(tl) = {k \in MapKeys(pre) : MapGet(pre, k).status = Incomplete}
        /\ Len(tl) = Cardinality(MapKeys(tl))
        /\ \A k \in MapKeys(tl) : MapGet(tl, k) = MapGet(pre, k)
        /\ \A j, k \in MapKeys(tl) :
                Place(tl, j) < Place(tl, k) <=> Place(pre, j) < Place(pre, k)
        /\ RemoveCompletedTasks(tl) = [res |-> Ok, tasks |-> tl]

\* it has removed a Complete task from between two Incomplete ones
C8_Witness ==
    /\ last.op = "remove_completed_tasks"
    /\ Len(pre) = 3
    /\ ~TaskIsComplete(pre[1].value)
    /\ TaskIsComplete(pre[2].value)
    /\ ~TaskIsComplete(pre[3].value)
    /\ Len(tl) = 2

\* C9: complete_task on a present id returns Ok, and a second call returns
\* Ok and leaves the list as the first call left it.
C9_CompleteTaskIdempotent ==
    /\ \A id \in MapKeys(tl) :
        LET once == CompleteTask(tl, id)
            twice == CompleteTask(once.tasks, id)
        IN  once.res = Ok /\ twice.res = Ok /\ twice.tasks = once.tasks
    /\ (/\ last.op = "complete_task"
        /\ last.id \in MapKeys(pre)
        /\ TaskIsComplete(MapGet(pre, last.id))) =>
            (last.res = Ok /\ tl = pre)

\* complete_task has been called on a task that was Complete already
C9_Witness ==
    /\ last.op = "complete_task"
    /\ last.id \in MapKeys(pre)
    /\ TaskIsComplete(MapGet(pre, last.id))
    /\ Len(pre) > 1

\* C10: a new task is Incomplete, and a task that is Complete is Complete
\* after every operation that leaves it in the list.
C10_CompleteStaysComplete ==
    /\ \A title \in Titles : TaskNew(title).status = Incomplete
    /\ (last.op = "add_task" /\ last.res = Ok) =>
            tl[Len(tl)].value.status = Incomplete
    /\ \A k \in MapKeys(pre) \cap MapKeys(tl) :
            TaskIsComplete(MapGet(pre, k)) => TaskIsComplete(MapGet(tl, k))

\* a Complete task has been renamed
C10_Witness ==
    /\ last.op = "rename_task"
    /\ last.res = Ok
    /\ TaskIsComplete(MapGet(pre, last.id))
    /\ MapGet(pre, last.id).title # last.title
    /\ TaskIsComplete(MapGet(tl, last.id))

\* C21: when add_task returns it has added one entry and changed nothing
\* else: the list is one longer, the pairs it held are the same and in the
\* same order, none is overwritten, and the new entry is the last.
C21_AddTaskOnlyAppends ==
    (last.op = "add_task" /\ Returned(last.res)) =>
        /\ Len(tl) = Len(pre) + 1
        /\ \A i \in 1..Len(pre) : tl[i] = pre[i]
        /\ tl[Len(tl)].key \notin MapKeys(pre)
        /\ tl[Len(tl)].value = TaskNew(last.title)
        /\ Cardinality(MapKeys(tl)) = Cardinality(MapKeys(pre)) + 1

\* a task has been added to a list of two whose ids are out of ascending
\* order and whose number of tasks is one of its ids
C21_Witness ==
    /\ last.op = "add_task" /\ Returned(last.res)
    /\ Len(pre) = 2
    /\ pre[1].key > pre[2].key
    /\ Len(pre) \in MapKeys(pre)
    /\ Len(tl) = 3

\* C22: remove_task with an id that is a key returns Ok and removes that
\* entry only: the id is no key any more, the list is one shorter and every
\* other id has the task it had.
C22_RemoveTaskRemovesOneEntry ==
    (last.op = "remove_task" /\ last.id \in MapKeys(pre)) =>
        /\ last.res = Ok
        /\ last.id \notin MapKeys(tl)
        /\ Len(tl) = Len(pre) - 1
        /\ MapKeys(tl) = MapKeys(pre) \ {last.id}
        /\ \A k \in MapKeys(tl) : MapGet(tl, k) = MapGet(pre, k)

\* the first of three tasks that differ from one another has been removed
C22_Witness ==
    /\ last.op = "remove_task" /\ last.res = Ok
    /\ Len(pre) = 3
    /\ pre[1].key = last.id
    /\ pre[2].value # pre[3].value
    /\ Len(tl) = 2

\* C23: rename_task and complete_task with an id that is a key return Ok
\* and change one field of that one task: rename_task the title, leaving
\* the status, complete_task the status, leaving the title. The ids, their
\* order and every other task stay as they were.
C23_RenameAndCompleteChangeOneField ==
    (last.op \in {"rename_task", "complete_task"} /\ last.id \in MapKeys(pre)) =>
        /\ last.res = Ok
        /\ Len(tl) = Len(pre)
        /\ \A i \in 1..Len(pre) :
            /\ tl[i].key = pre[i].key
            /\ pre[i].key # last.id => tl[i].value = pre[i].value
            /\ pre[i].key = last.id =>
                /\ tl[i].value.reminders = pre[i].value.reminders
                /\ IF last.op = "rename_task"
                   THEN /\ tl[i].value.title = last.title
                        /\ tl[i].value.status = pre[i].value.status
                   ELSE /\ tl[i].value.status = Complete
                        /\ tl[i].value.title = pre[i].value.title

\* a completed task that is not the last of its list has got another title
C23_Witness ==
    /\ last.op = "rename_task" /\ last.res = Ok
    /\ Len(pre) = 3
    /\ pre[1].key = last.id
    /\ pre[1].value.status = Complete
    /\ pre[1].value.title # last.title
    /\ tl[1].value.title = last.title

\* C24: in every list reached from the empty one, every id in the list is
\* smaller than the largest number of tasks the list has held at one time;
\* and while no task has ever been removed, the ids are 0 .. n-1 in that
\* order.
C24_IdsBelowPeak ==
    /\ \A k \in MapKeys(tl) : k < peak
    /\ ~removed => MapKeySeq(tl) = [i \in 1..Len(tl) |-> i - 1]

\* after a removal the list holds fewer tasks than it once did, one of
\* them under the largest id there can be, and its ids are out of order
C24_Witness ==
    /\ removed
    /\ Len(tl) = 2
    /\ Len(tl) < peak
    /\ tl[1].key = peak - 1
    /\ tl[2].key = 0
    /\ last.op = "add_task"

(***************************************************************************)
(* Spec: a Db, its operations, and the task operations applied to the      *)
(* list get_current_task_list_mut returns.                                 *)
(***************************************************************************)
RECURSIVE SumLen(_)
SumLen(m) == IF m = <<>> THEN 0 ELSE Len(Head(m).value) + SumLen(Tail(m))

\* the tasks all lists of d hold together
DbTasks(d) == SumLen(d.task_lists)

\* the lists add_task_list is called with
ListInputs ==
    {TaskListDefault, AddTask(TaskListDefault, TaskNew("a"), "debug").tasks}

\* the ids the task operations of Spec are called with
DbIds == 0..MaxDbTasks

DbInit ==
    /\ db = DbDefault
    /\ pre_db = DbDefault
    /\ last = NoOp
    /\ build \in Builds
    /\ TLIdle /\ CliIdle

\* a call o that leaves the Db d
DbApplyOp(o, d) ==
    /\ Returned(last.res)
    /\ pre_db' = db
    /\ db' = d
    /\ last' = o
    /\ out' = <<>>
    /\ UNCHANGED <<build, tlVars, fileVars, runVars>>

DbApply(op, id, title, name, res, d) == DbApplyOp(Op(op, id, title, name, res), d)

\* the list a task operation of Spec is called on
Current == DbGetCurrentTaskListMut(db)
CurrentTasks == IF Current.some THEN Current.value ELSE TaskListDefault

\* get_current_task_list_mut().unwrap() and the call on it, which returned r
DbApplyToCurrent(op, id, title, r) ==
    IF Current.some
    THEN DbApply(op, id, title, NoName, r.res, DbWriteCurrent(db, r.tasks))
    ELSE DbApply(op, id, title, NoName, Panicked, db)

AddTaskListOp ==
    \E name \in Names, task_list \in ListInputs :
        /\ DbTasks(DbAddTaskList(db, name, task_list)) <= MaxDbTasks
        /\ DbApplyOp(OpAddTaskList(name, task_list),
                     DbAddTaskList(db, name, task_list))

SetCurrentOp ==
    \E name \in CurrentNames :
        LET r == DbSetCurrent(db, name)
        IN  DbApply("set_current", NoId, NoTitle, name, r.res, r.db)

AddTaskOp ==
    \E title \in Titles :
        /\ DbTasks(db) < MaxDbTasks
        /\ DbApplyToCurrent("add_task", NoId, title,
                            AddTask(CurrentTasks, TaskNew(title), build))

RemoveTaskOp ==
    \E id \in DbIds :
        DbApplyToCurrent("remove_task", id, NoTitle, RemoveTask(CurrentTasks, id))

RenameTaskOp ==
    \E id \in DbIds, title \in Titles :
        DbApplyToCurrent("rename_task", id, title, RenameTask(CurrentTasks, id, title))

CompleteTaskOp ==
    \E id \in DbIds :
        DbApplyToCurrent("complete_task", id, NoTitle, CompleteTask(CurrentTasks, id))

RemoveCompletedTasksOp ==
    DbApplyToCurrent("remove_completed_tasks", NoId, NoTitle,
                     RemoveCompletedTasks(CurrentTasks))

\* format!("{}", db)
DisplayOp ==
    /\ Returned(last.res)
    /\ last.op # "display"
    /\ out' = DbDisplay(db)
    /\ last' = Op("display", NoId, NoTitle, NoName, Ok)
    /\ pre_db' = db
    /\ UNCHANGED <<db, build, tlVars, fileVars, runVars>>

Next ==
    \/ AddTaskListOp
    \/ SetCurrentOp
    \/ AddTaskOp
    \/ RemoveTaskOp
    \/ RenameTaskOp
    \/ CompleteTaskOp
    \/ RemoveCompletedTasksOp
    \/ DisplayOp

Spec == DbInit /\ [][Next]_vars

(***************************************************************************)
(* Properties of the Db operations.                                        *)
(***************************************************************************)
\* C2: in every state reached from Db::default() by add_task_list,
\* set_current (successful or not) and task operations on the current
\* list, current_list is a key of task_lists and get_current_task_list_mut
\* returns Some.
C2_CurrentListExists ==
    /\ MapContainsKey(db.task_lists, db.current_list)
    /\ DbGetCurrentTaskListMut(db).some

\* the current list is not the default one, it holds tasks, and a
\* set_current has just failed
C2_Witness ==
    /\ db.current_list # "Tasks"
    /\ Len(db.task_lists) = 2
    /\ Len(MapGet(db.task_lists, db.current_list)) > 0
    /\ last.op = "set_current"
    /\ last.res.kind = "NonExistentTaskList"

\* C4: set_current(name) returns Ok and makes name the current list exactly
\* when name is a key of task_lists; otherwise it returns
\* NonExistentTaskList(name) and current_list stays; task_lists is never
\* changed.
C4_SetCurrent ==
    last.op = "set_current" =>
        /\ db.task_lists = pre_db.task_lists
        /\ IF last.name \in MapKeys(pre_db.task_lists)
           THEN last.res = Ok /\ db.current_list = last.name
           ELSE /\ last.res = NonExistentTaskList(last.name)
                /\ db.current_list = pre_db.current_list

\* set_current has changed the current list
C4_Witness ==
    /\ last.op = "set_current"
    /\ last.res = Ok
    /\ db.current_list # pre_db.current_list
    /\ DbTasks(db) > 0

\* C11: add_task_list(name, task_list) puts a name that is not yet a key
\* last in the order of the lists; for a name that is a key it replaces the
\* contents and keeps the place. Every other list, the order of the lists
\* and current_list stay as they were, and no operation makes the lists
\* fewer.
C11_AddTaskListInsertsOrReplaces ==
    /\ Len(db.task_lists) >= Len(pre_db.task_lists)
    /\ last.op = "add_task_list" =>
        LET old == pre_db.task_lists
            new == db.task_lists
        IN  /\ db.current_list = pre_db.current_list
            /\ IF \E i \in 1..Len(old) : old[i].key = last.name
               THEN /\ Len(new) = Len(old)
                    /\ \A i \in 1..Len(old) :
                        /\ new[i].key = old[i].key
                        /\ new[i].value = IF old[i].key = last.name
                                          THEN last.list ELSE old[i].value
               ELSE /\ Len(new) = Len(old) + 1
                    /\ \A i \in 1..Len(old) : new[i] = old[i]
                    /\ new[Len(new)].key = last.name
                    /\ new[Len(new)].value = last.list

\* the first of two lists, holding a task, is replaced by an empty one
C11_Witness ==
    /\ last.op = "add_task_list"
    /\ Len(pre_db.task_lists) = 2
    /\ pre_db.task_lists[1].key = last.name
    /\ pre_db.task_lists[1].value # <<>>
    /\ last.list = <<>>
    /\ db.task_lists[1].value = <<>>

TaskOps ==
    {"add_task", "remove_task", "rename_task", "complete_task",
     "remove_completed_tasks"}

\* the list a task operation leaves, called on the list tasks
TaskOpOn(o, tasks) ==
    CASE o.op = "add_task" -> AddTask(tasks, TaskNew(o.title), build).tasks
      [] o.op = "remove_task" -> RemoveTask(tasks, o.id).tasks
      [] o.op = "rename_task" -> RenameTask(tasks, o.id, o.title).tasks
      [] o.op = "complete_task" -> CompleteTask(tasks, o.id).tasks
      [] o.op = "remove_completed_tasks" -> RemoveCompletedTasks(tasks).tasks

\* C12: get_current_task_list_mut returns the list stored under
\* current_list, and a task operation applied through it changes that list
\* only: the other lists, the order of the lists and current_list stay as
\* they were.
C12_TaskOpsChangeOnlyTheCurrentList ==
    /\ \A i \in 1..Len(db.task_lists) :
        db.task_lists[i].key = db.current_list =>
            DbGetCurrentTaskListMut(db) = Some(db.task_lists[i].value)
    /\ last.op \in TaskOps =>
        /\ db.current_list = pre_db.current_list
        /\ Len(db.task_lists) = Len(pre_db.task_lists)
        /\ \A i \in 1..Len(pre_db.task_lists) :
            /\ db.task_lists[i].key = pre_db.task_lists[i].key
            /\ db.task_lists[i].value =
                IF pre_db.task_lists[i].key = pre_db.current_list
                THEN TaskOpOn(last, pre_db.task_lists[i].value)
                ELSE pre_db.task_lists[i].value

\* a task is added to the second list, the current one, while the first
\* list holds a task of its own
C12_Witness ==
    /\ last.op = "add_task"
    /\ Len(db.task_lists) = 2
    /\ db.task_lists[2].key = db.current_list
    /\ db.task_lists[1].value # <<>>
    /\ Len(db.task_lists[2].value) = Len(pre_db.task_lists[2].value) + 1
    /\ db.task_lists[1].value # pre_db.task_lists[2].value

\* the header lines of a rendered database, in order: the first line and
\* every line that follows an empty one
Headers(text) ==
    LET at == {i \in 1..Len(text) : i = 1 \/ text[i - 1] = ""}
    IN  [k \in 1..Cardinality(at) |->
            text[CHOOSE i \in at : Cardinality({j \in at : j <= i}) = k]]

\* C13: the rendering of a reachable Db marks exactly one header with
\* " (current)", the header of the list current_list names; every other
\* header is the bare name of its list.
C13_ExactlyOneHeaderIsMarked ==
    last.op = "display" =>
        LET headers == Headers(out)
            marked == {k \in 1..Len(headers) :
                        \E name \in CurrentNames :
                            headers[k] = name \o " (current)"}
        IN  /\ Len(headers) = Len(db.task_lists)
            /\ Cardinality(marked) = 1
            /\ \A k \in 1..Len(headers) :
                headers[k] = IF db.task_lists[k].key = db.current_list
                             THEN db.task_lists[k].key \o " (current)"
                             ELSE db.task_lists[k].key

\* two lists are rendered and the second is the current one
C13_Witness ==
    /\ last.op = "display"
    /\ Len(db.task_lists) = 2
    /\ db.task_lists[2].key = db.current_list
    /\ db.task_lists[1].value # <<>>
    /\ out # <<>>

\* an id right-aligned in a field of width 3
IdField(id) ==
    IF id < 10 THEN "  " \o ToString(id)
    ELSE IF id < 100 THEN " " \o ToString(id)
    ELSE ToString(id)

\* the one line of a task: the id in brackets, the status glyph, the title
TaskLine(id, task) ==
    "[" \o IdField(id) \o "] "
        \o (IF task.status = Incomplete THEN "U+2022" ELSE "U+2013")
        \o " " \o task.title

\* the lines under the header of a list
BodyLen(tasks) == IF tasks = <<>> THEN 1 ELSE Len(tasks)

\* the line the header of the k-th list is on
RECURSIVE HeaderAt(_, _)
HeaderAt(lists, k) ==
    IF k = 1 THEN 1
    ELSE HeaderAt(lists, k - 1) + 1 + BodyLen(lists[k - 1].value) + 1

\* C14: the rendering of a Db has the lists in iteration order; a list is
\* its header line, then one line per task in the order of the list, each
\* indented by two spaces, or the indented placeholder line exactly when
\* the list is empty; one empty line stands between two lists and none
\* after the last.
C14_DbRendering ==
    last.op = "display" =>
        LET lists == db.task_lists
            n == Len(lists)
        IN  /\ Len(out) = HeaderAt(lists, n) + BodyLen(lists[n].value)
            /\ Cardinality({i \in 1..Len(out) : out[i] = ""}) = n - 1
            /\ \A k \in 1..n :
                LET at == HeaderAt(lists, k)
                    tasks == lists[k].value
                IN  /\ out[at] \in {lists[k].key, lists[k].key \o " (current)"}
                    /\ IF tasks = <<>>
                       THEN out[at + 1] =
                                "  No tasks have been added to this task list yet"
                       ELSE \A i \in 1..Len(tasks) :
                                out[at + i] =
                                    "  " \o TaskLine(tasks[i].key, tasks[i].value)
                    /\ k < n => out[at + BodyLen(tasks) + 1] = ""

\* C15: the rendering of a TaskList has one line per task, in iteration
\* order: the id right-aligned in width 3 inside brackets, the status glyph
\* and the title; an empty list renders as the empty text.
C15_TaskListRendering ==
    last.op = "display" =>
        /\ Len(out) = Len(tl)
        /\ \A i \in 1..Len(tl) : out[i] = TaskLine(tl[i].key, tl[i].value)

\* C16: reading back the stored form of a reachable Db gives an equal Db:
\* the same current_list, the same lists in the same order, and in each
\* list the same ids and tasks in the same iteration order.
C16_StoredFormRoundTrips ==
    LET back == DbFromJson(DbToJson(db))
    IN  /\ back.current_list = db.current_list
        /\ MapKeySeq(back.task_lists) = MapKeySeq(db.task_lists)
        /\ \A i \in 1..Len(db.task_lists) :
            /\ MapKeySeq(back.task_lists[i].value) = MapKeySeq(db.task_lists[i].value)
            /\ back.task_lists[i].value = db.task_lists[i].value
        /\ back = db

\* two lists, the second current, one of them with its ids out of
\* ascending order and a completed task
C16_Witness ==
    /\ Len(db.task_lists) = 2
    /\ db.task_lists[2].key = db.current_list
    /\ \E i \in 1..2 :
        /\ MapKeySeq(db.task_lists[i].value) = <<1, 0>>
        /\ \E j \in 1..2 : TaskIsComplete(db.task_lists[i].value[j].value)
    /\ ReadDb(SaveDb(db)) = db

\* C20: Db::default() has exactly one list, named "Tasks", which is empty
\* and is the current list.
C20_DefaultDb ==
    last.op = "none" =>
        /\ Len(db.task_lists) = 1
        /\ db.task_lists[1].key = "Tasks"
        /\ TaskListIsEmpty(db.task_lists[1].value)
        /\ db.current_list = "Tasks"

\* the database as constructed, before any operation, renders as the
\* marked header and the placeholder
C20_Witness ==
    /\ last.op = "none"
    /\ pre_db = db
    /\ DbGetCurrentTaskListMut(db) = Some(<<>>)
    /\ DbDisplay(db) =
        <<"Tasks (current)", "  No tasks have been added to this task list yet">>

(***************************************************************************)
(* SpecCli: runs of main(), one after the other, against the same file.    *)
(***************************************************************************)
\* Subcommand, and no subcommand
Subcommands ==
    {Op("Add", NoId, title, NoName, Ok) : title \in Titles}
    \cup {Op("Remove", id, NoTitle, NoName, Ok) : id \in DbIds}
    \cup {Op("Rename", id, title, NoName, Ok) : id \in DbIds, title \in Titles}
    \cup {Op("Complete", id, NoTitle, NoName, Ok) : id \in DbIds}
    \cup {Op("RemoveCompleted", NoId, NoTitle, NoName, Ok)}
    \cup {Op("AddTaskList", NoId, NoTitle, name, Ok) : name \in Names}
    \cup {Op("SetCurrent", NoId, NoTitle, name, Ok) : name \in CurrentNames}

\* The arms Add .. RemoveCompleted are the calls themselves, without `?`:
\* what the call returns is the value of the arm and goes no further.
ExecuteOnCurrent(d, current, r) ==
    [res |-> IF Returned(r.res) THEN Ok ELSE r.res,
     db |-> DbWriteCurrent(d, r.tasks)]

\* Subcommand::execute
Execute(c, d, b) ==
    LET current == DbGetCurrentTaskListMut(d)
    IN  IF ~current.some THEN [res |-> Panicked, db |-> d]
        ELSE CASE c.op = "Add" ->
                    ExecuteOnCurrent(d, current, AddTask(current.value, TaskNew(c.title), b))
               [] c.op = "Remove" ->
                    ExecuteOnCurrent(d, current, RemoveTask(current.value, c.id))
               [] c.op = "Rename" ->
                    ExecuteOnCurrent(d, current, RenameTask(current.value, c.id, c.title))
               [] c.op = "Complete" ->
                    ExecuteOnCurrent(d, current, CompleteTask(current.value, c.id))
               [] c.op = "RemoveCompleted" ->
                    ExecuteOnCurrent(d, current, RemoveCompletedTasks(current.value))
               [] c.op = "AddTaskList" ->
                    LET r == DbSetCurrent(DbAddTaskList(d, c.name, TaskListDefault), c.name)
                    IN  IF r.res = Ok THEN r ELSE [res |-> Panicked, db |-> r.db]
               [] c.op = "SetCurrent" -> DbSetCurrent(d, c.name)

CliInit ==
    /\ disk = NoFile
    /\ start = NoFile
    /\ disk0 = NoFile
    /\ pc = "idle"
    /\ mem = DbDefault
    /\ cmd = NoOp
    /\ exit = "none"
    /\ out = <<>>
    /\ last = NoOp
    /\ build \in Builds
    /\ TLIdle /\ DbIdle

\* main() without the test of db_path.exists(): every run starts from a
\* new default database
MainLoadFresh ==
    /\ pc = "idle"
    /\ \E c \in Subcommands \cup {NoOp} :
        /\ cmd' = c
        /\ mem' = DbDefault
        /\ disk' = SaveDb(DbDefault)
        /\ disk0' = disk'
    /\ start' = disk
    /\ pc' = "loaded"
    /\ exit' = "none"
    /\ out' = <<>>
    /\ last' = NoOp
    /\ UNCHANGED <<build, tlVars, dbVars>>

\* main() without the save_db of the new default database: with no file
\* the database is made in memory only
MainLoadNoSave ==
    /\ pc = "idle"
    /\ \E c \in Subcommands \cup {NoOp} :
        LET loaded == IF disk.exists THEN ReadDb(disk) ELSE DbDefault
        IN  /\ c.op = "Add" => DbTasks(loaded) < MaxDbTasks
            /\ cmd' = c
            /\ mem' = loaded
    /\ disk' = disk
    /\ disk0' = disk
    /\ start' = disk
    /\ pc' = "loaded"
    /\ exit' = "none"
    /\ out' = <<>>
    /\ last' = NoOp
    /\ UNCHANGED <<build, tlVars, dbVars>>

\* main() up to the test of opts.subcommand: the arguments are parsed and
\* the database is read, or, with no file, made and saved
MainLoad ==
    /\ pc = "idle"
    /\ \E c \in Subcommands \cup {NoOp} :
        LET loaded == IF disk.exists THEN ReadDb(disk) ELSE DbDefault
        IN  /\ c.op = "Add" => DbTasks(loaded) < MaxDbTasks
            /\ cmd' = c
            /\ mem' = loaded
            /\ disk' = IF disk.exists THEN disk ELSE SaveDb(DbDefault)
            /\ disk0' = disk'
    /\ start' = disk
    /\ pc' = "loaded"
    /\ exit' = "none"
    /\ out' = <<>>
    /\ last' = NoOp
    /\ UNCHANGED <<build, tlVars, dbVars>>

\* subcommand.execute(&mut db)?
MainExecute ==
    /\ pc = "loaded"
    /\ cmd # NoOp
    /\ LET r == Execute(cmd, mem, build)
       IN  /\ last' = [cmd EXCEPT !.res = r.res]
           /\ mem' = r.db
           /\ pc' = IF r.res = Ok THEN "executed" ELSE "idle"
           /\ exit' = CASE r.res = Ok -> exit
                        [] r.res.kind = "panic" -> "panic"
                        [] r.res.kind = "hang" -> "hang"
                        [] OTHER -> "failure"
    /\ UNCHANGED <<build, tlVars, dbVars, fileVars, cmd, out>>

\* a save of the database as it was loaded
MainSaveLoaded ==
    /\ pc = "executed"
    /\ disk' = disk0
    /\ pc' = "idle"
    /\ exit' = "success"
    /\ UNCHANGED <<last, build, tlVars, dbVars, start, disk0, mem, cmd, out>>

\* save_db(&db_path, &db)?; Ok(())
MainSave ==
    /\ pc = "executed"
    /\ disk' = SaveDb(mem)
    /\ pc' = "idle"
    /\ exit' = "success"
    /\ UNCHANGED <<last, build, tlVars, dbVars, start, disk0, mem, cmd, out>>

\* println!("{}", db); Ok(())
MainPrint ==
    /\ pc = "loaded"
    /\ cmd = NoOp
    /\ out' = DbDisplay(mem)
    /\ pc' = "idle"
    /\ exit' = "success"
    /\ UNCHANGED <<last, build, tlVars, dbVars, fileVars, mem, cmd>>

CliNext == MainLoad \/ MainExecute \/ MainSave \/ MainPrint

SpecCli == CliInit /\ [][CliNext]_vars

(***************************************************************************)
(* Properties of the command line.                                         *)
(***************************************************************************)
\* the run has ended
Exited == pc = "idle" /\ exit # "none"

\* the subcommand names a task id the current list of d does not hold, or a
\* list d does not hold
RefersToMissing(c, d) ==
    \/ /\ c.op \in {"Remove", "Rename", "Complete"}
       /\ c.id \notin MapKeys(DbGetCurrentTaskListMut(d).value)
    \/ /\ c.op = "SetCurrent"
       /\ c.name \notin MapKeys(d.task_lists)

\* C7: a run whose subcommand names a task id that is not in the current
\* list, or sets a current list that is not in the database, ends in
\* failure, with the stored database as it was before the subcommand ran.
C7_MissingTargetFailsAndKeepsFile ==
    (Exited /\ disk0.exists /\ RefersToMissing(cmd, ReadDb(disk0))) =>
        (exit = "failure" /\ disk = disk0)

\* the database a run starts from: the one in the file, or the default one
Loaded == IF start.exists THEN DbFromJson(start.json) ELSE DbDefault

\* C17: a run with no subcommand against a database file that is there
\* prints the rendering of the database, changes nothing, ends in success
\* and leaves the file as it was.
C17_NoSubcommandOnlyPrints ==
    (Exited /\ cmd = NoOp /\ start.exists) =>
        /\ exit = "success"
        /\ out = DbDisplay(DbFromJson(start.json))
        /\ mem = DbFromJson(start.json)
        /\ disk = start

\* a database of two lists that is not the default one has been printed
C17_Witness ==
    /\ Exited /\ cmd = NoOp /\ start.exists
    /\ Len(Loaded.task_lists) = 2
    /\ Loaded.current_list = "Work"
    /\ DbTasks(Loaded) > 0
    /\ Len(out) > 4
    /\ disk = start

\* C18: the subcommand AddTaskList{name} never fails: set_current returns
\* Ok, and the database then has a list of that name that is empty and is
\* the current list, whether or not there was a list of that name before.
C18_AddTaskListSubcommandNeverFails ==
    /\ last.op = "AddTaskList" =>
        /\ last.res = Ok
        /\ \E i \in 1..Len(mem.task_lists) :
            /\ mem.task_lists[i].key = last.name
            /\ mem.task_lists[i].value = <<>>
        /\ mem.current_list = last.name
    /\ (Exited /\ cmd.op = "AddTaskList") =>
        /\ exit = "success"
        /\ DbFromJson(disk.json) = mem

\* a list that held a task and was not the current one is added again
C18_Witness ==
    /\ Exited /\ cmd.op = "AddTaskList"
    /\ MapContainsKey(Loaded.task_lists, cmd.name)
    /\ MapGet(Loaded.task_lists, cmd.name) # <<>>
    /\ Loaded.current_list # cmd.name
    /\ MapGet(mem.task_lists, cmd.name) = <<>>
    /\ mem.current_list = cmd.name

\* the operation of the core a subcommand on the current list stands for
CoreOp(c) ==
    [c EXCEPT !.op = CASE c.op = "Add" -> "add_task"
                       [] c.op = "Remove" -> "remove_task"
                       [] c.op = "Rename" -> "rename_task"
                       [] c.op = "Complete" -> "complete_task"
                       [] c.op = "RemoveCompleted" -> "remove_completed_tasks"]

\* the database d with the one operation of the subcommand c applied
Applied(c, d) ==
    CASE c.op = "AddTaskList" ->
            [task_lists |-> MapInsert(d.task_lists, c.name, <<>>),
             current_list |-> c.name]
      [] c.op = "SetCurrent" -> [d EXCEPT !.current_list = c.name]
      [] OTHER ->
            [d EXCEPT !.task_lists =
                [i \in 1..Len(@) |->
                    IF @[i].key = d.current_list
                    THEN [key |-> @[i].key, value |-> TaskOpOn(CoreOp(c), @[i].value)]
                    ELSE @[i]]]

\* C19: a run whose subcommand succeeds stores the database it loaded, or
\* the default one it made, with that one operation applied and nothing
\* else; nothing is saved before the operation has succeeded, and nothing
\* when it has not.
C19_SuccessPersistsOneOperation ==
    /\ pc \in {"loaded", "executed"} => disk = disk0
    /\ (Exited /\ exit # "success") => disk = disk0
    /\ (Exited /\ cmd # NoOp /\ exit = "success") =>
        /\ DbFromJson(disk.json) = Applied(cmd, Loaded)
        /\ disk = SaveDb(Applied(cmd, Loaded))

\* a run against a stored database of two lists has completed a task and
\* stored the change
C19_Witness ==
    /\ Exited /\ cmd.op = "Complete" /\ exit = "success"
    /\ start.exists
    /\ DbFromJson(disk.json) # Loaded
    /\ Len(Loaded.task_lists) = 2

\* C25: a run that finds no database file stores Db::default() before it
\* executes a subcommand; after such a run that only displays, or whose
\* subcommand fails, the file holds the default database; and no failed
\* run leaves the store without a database.
C25_DefaultIsStoredFirst ==
    /\ (~start.exists /\ pc \in {"loaded", "executed"}) =>
            disk = SaveDb(DbDefault)
    /\ (Exited /\ ~start.exists /\ (cmd = NoOp \/ exit # "success")) =>
        /\ disk.exists
        /\ disk = SaveDb(DbDefault)
        /\ DbFromJson(disk.json) =
                [task_lists |-> <<[key |-> "Tasks", value |-> <<>>]>>,
                 current_list |-> "Tasks"]
    /\ (Exited /\ exit # "success") => disk.exists

\* the first run, with no file there, has failed to set a current list
\* that the default database does not have
C25_Witness ==
    /\ Exited /\ ~start.exists
    /\ cmd.op = "SetCurrent"
    /\ exit = "failure"
    /\ disk.exists
    /\ mem = DbDefault

====
